---------------------------- MODULE Spec2Model ----------------------------
(***************************************************************************)
(* Model of scripts/generate_katex_spec_todos.py: the generator of ignored *)
(* Rust test stubs for the describe blocks of katex-spec.js that have not  *)
(* been ported yet.                                                        *)
(*                                                                         *)
(* Text is modelled as a sequence of strings.  Text read from the input    *)
(* file is a sequence of one-character strings, so that the regular        *)
(* expressions and str methods of the script can be modelled character by  *)
(* character.  The fixed text of the generated document is kept as whole   *)
(* tokens.                                                                 *)
(***************************************************************************)
EXTENDS Integers, Sequences, FiniteSets, TLC

VARIABLES
    contents,   \* main: the lines of SPEC (the file on disk, same for every run)
    pc,         \* position of the running main() / snakeify() call
    run,        \* number of main() calls started in this process
    lineno,     \* main: enumerate() counter of the scan loop, 1-based
    describes,  \* main: list of (title, lineno)
    seen,       \* main: Counter of base identifiers
    stubs,      \* main: list of (title, lineno, fn)
    out,        \* main: list of document lines
    stdout,     \* text written to standard output, one element per print call
    name,       \* snakeify: the argument
    clean       \* snakeify: the returned value

vars == <<contents, pc, run, lineno, describes, seen, stubs, out, stdout, name, clean>>

-----------------------------------------------------------------------------
(* Bounds of the model *)

MaxLines == 3
MaxRuns == 2
MaxNameLen == 3

-----------------------------------------------------------------------------
(* Characters *)

UPPER == <<"A","B","C","D","E","F","G","H","I","J","K","L","M",
           "N","O","P","Q","R","S","T","U","V","W","X","Y","Z">>
LOWER == <<"a","b","c","d","e","f","g","h","i","j","k","l","m",
           "n","o","p","q","r","s","t","u","v","w","x","y","z">>
DIGITS == <<"0","1","2","3","4","5","6","7","8","9">>

Range(s) == {s[i] : i \in DOMAIN s}

UpperCase == Range(UPPER)
LowerCase == Range(LOWER)
Digits == Range(DIGITS)
Alnum == UpperCase \cup LowerCase \cup Digits

\* the regex class [a-zA-Z0-9]
IsAlnum(c) == c \in Alnum

\* str.isalpha() of one character
IsAlpha(c) == c \in UpperCase \cup LowerCase

\* str.lower() of one character
LowerChar(c) ==
    IF c \in UpperCase
    THEN LOWER[CHOOSE i \in DOMAIN UPPER : UPPER[i] = c]
    ELSE c

\* str.lower()
Lower(s) == [i \in DOMAIN s |-> LowerChar(s[i])]

\* str(n) of a natural number, as in an f-string
RECURSIVE Str(_)
Str(n) == IF n < 10 THEN <<DIGITS[n + 1]>> ELSE Str(n \div 10) \o <<DIGITS[(n % 10) + 1]>>

-----------------------------------------------------------------------------
(* snakeify *)

\* re.sub(r"[\\\"']", " ", name)
SubQuotes(s) == [i \in DOMAIN s |-> IF s[i] \in {"\\", "\"", "'"} THEN " " ELSE s[i]]

RECURSIVE SkipNonAlnum(_)
SkipNonAlnum(s) ==
    IF s = <<>> \/ IsAlnum(Head(s)) THEN s ELSE SkipNonAlnum(Tail(s))

\* re.sub(r"[^a-zA-Z0-9]+", "_", clean)
RECURSIVE SubNonAlnum(_)
SubNonAlnum(s) ==
    IF s = <<>> THEN <<>>
    ELSE IF IsAlnum(Head(s)) THEN <<Head(s)>> \o SubNonAlnum(Tail(s))
    ELSE <<"_">> \o SubNonAlnum(SkipNonAlnum(Tail(s)))

RECURSIVE LStrip(_, _)
LStrip(s, c) == IF s # <<>> /\ Head(s) = c THEN LStrip(Tail(s), c) ELSE s

RECURSIVE RStrip(_, _)
RStrip(s, c) ==
    IF s # <<>> /\ s[Len(s)] = c THEN RStrip(SubSeq(s, 1, Len(s) - 1), c) ELSE s

\* str.strip(c)
Strip(s, c) == RStrip(LStrip(s, c), c)

UNKNOWN == <<"u","n","k","n","o","w","n">>
KATEX_ == <<"k","a","t","e","x","_">>

\* mutants of snakeify: the first-character test left out; the edges not stripped
snakeifyNoPrefix(title) ==
    LET c == Lower(Strip(SubNonAlnum(SubQuotes(title)), "_"))
    IN  IF c = <<>> THEN UNKNOWN ELSE c

snakeifyNoStrip(title) ==
    LET c  == Lower(SubNonAlnum(SubQuotes(title)))
        c2 == IF c = <<>> THEN UNKNOWN ELSE c
    IN  IF ~IsAlpha(c2[1]) THEN KATEX_ \o c2 ELSE c2

snakeify(title) ==
    LET c1 == SubQuotes(title)
        c2 == Lower(Strip(SubNonAlnum(c1), "_"))
        c3 == IF c2 = <<>> THEN UNKNOWN ELSE c2
    IN  IF ~IsAlpha(c3[1]) THEN KATEX_ \o c3 ELSE c3

-----------------------------------------------------------------------------
(* The scan of one line *)

DESCRIBE == <<"d","e","s","c","r","i","b","e","(","\"">>

\* the group ([^"]+): the longest prefix without a double quote
RECURSIVE TakeNonQuote(_)
TakeNonQuote(s) ==
    IF s = <<>> \/ Head(s) = "\"" THEN <<>> ELSE <<Head(s)>> \o TakeNonQuote(Tail(s))

\* the pattern describe\("([^"]+) tried at position 1 of s:
\* <<>> for None, <<group 1>> for a match
MatchHere(s) ==
    IF Len(s) >= Len(DESCRIBE) /\ SubSeq(s, 1, Len(DESCRIBE)) = DESCRIBE
    THEN LET g == TakeNonQuote(SubSeq(s, Len(DESCRIBE) + 1, Len(s)))
         IN  IF g # <<>> THEN <<g>> ELSE <<>>
    ELSE <<>>

\* mutant of DescribeMatch: re.search, the pattern tried at every position
DescribeSearch(line) ==
    LET hits == {k \in 1..Len(line) : MatchHere(SubSeq(line, k, Len(line))) # <<>>}
    IN  IF hits = {} THEN <<>>
        ELSE MatchHere(SubSeq(line, CHOOSE k \in hits : \A j \in hits : k <= j, Len(line)))

\* re.match(r'describe\("([^"]+)', line)
DescribeMatch(line) == MatchHere(line)

-----------------------------------------------------------------------------
(* PORTED: the describe titles already represented in aliter/src/spec.rs,   *)
(* as the characters of each Python string                                  *)

PORTED == {
    <<"A"," ","p","a","r","s","e","r">>,
    <<"A","n"," ","o","r","d"," ","p","a","r","s","e","r">>,
    <<"A"," ","b","i","n"," ","p","a","r","s","e","r">>,
    <<"A"," ","r","e","l"," ","p","a","r","s","e","r">>,
    <<"A"," ","m","a","t","h","i","n","n","e","r"," ","p","a","r","s","e","r">>,
    <<"A"," ","p","u","n","c","t"," ","p","a","r","s","e","r">>,
    <<"A","n"," ","o","p","e","n"," ","p","a","r","s","e","r">>,
    <<"A"," ","c","l","o","s","e"," ","p","a","r","s","e","r">>,
    <<"A"," ","\\","\\","K","a","T","e","X"," ","p","a","r","s","e","r">>,
    <<"A"," ","s","u","b","s","c","r","i","p","t"," ","a","n","d"," ","s","u","p","e","r","s","c","r","i","p","t"," ","p","a","r","s","e","r">>,
    <<"A"," ","s","u","b","s","c","r","i","p","t"," ","a","n","d"," ","s","u","p","e","r","s","c","r","i","p","t"," ","t","r","e","e","-","b","u","i","l","d","e","r">>,
    <<"A"," ","p","a","r","s","e","r"," ","w","i","t","h"," ","l","i","m","i","t"," ","c","o","n","t","r","o","l","s">>,
    <<"A"," ","g","r","o","u","p"," ","p","a","r","s","e","r">>,
    <<"A"," ","s","u","p","s","u","b"," ","l","e","f","t","/","r","i","g","h","t"," ","n","u","c","l","e","u","s"," ","p","a","r","s","e","r">>,
    <<"A","n"," ","o","v","e","r","/","u","n","d","e","r","l","i","n","e"," ","p","a","r","s","e","r">>,
    <<"A"," ","\\","\\","b","e","g","i","n","g","r","o","u","p",".",".",".","\\","\\","e","n","d","g","r","o","u","p"," ","p","a","r","s","e","r">>,
    <<"A","n"," ","i","m","p","l","i","c","i","t"," ","g","r","o","u","p"," ","p","a","r","s","e","r">>,
    <<"A"," ","f","u","n","c","t","i","o","n"," ","p","a","r","s","e","r">>,
    <<"A","n"," ","o","v","e","r","/","b","r","a","c","e","/","b","r","a","c","k"," ","p","a","r","s","e","r">>,
    <<"A"," ","g","e","n","f","r","a","c"," ","b","u","i","l","d","e","r">>,
    <<"A"," ","i","n","f","i","x"," ","b","u","i","l","d","e","r">>,
    <<"A"," ","t","e","x","t"," ","p","a","r","s","e","r">>,
    <<"A"," ","p","h","a","n","t","o","m"," ","p","a","r","s","e","r">>,
    <<"A"," ","c","o","l","o","r"," ","p","a","r","s","e","r">>,
    <<"A"," ","k","e","r","n"," ","p","a","r","s","e","r">>,
    <<"A"," ","r","u","l","e"," ","p","a","r","s","e","r">>,
    <<"A"," ","t","e","x","t","-","m","o","d","e"," ","s","w","i","t","c","h"," ","p","a","r","s","e","r">>,
    <<"A","n"," ","o","v","e","r","b","r","a","c","e"," ","u","n","d","e","r","b","r","a","c","e"," ","p","a","r","s","e","r">>,
    <<"A"," ","t","e","x","t"," ","f","o","n","t"," ","p","a","r","s","e","r">>,
    <<"A"," ","m","a","t","h"," ","f","o","n","t"," ","p","a","r","s","e","r">>,
    <<"A"," ","s","p","a","c","i","n","g"," ","p","a","r","s","e","r">>,
    <<"A"," ","t","e","x","t"," ","c","o","l","o","r"," ","p","a","r","s","e","r">>,
    <<"A"," ","d","e","l","i","m","i","t","e","r"," ","s","i","z","i","n","g"," ","p","a","r","s","e","r">>,
    <<"A"," ","s","q","r","t"," ","p","a","r","s","e","r">>,
    <<"A"," ","b","i","n","o","m"," ","p","a","r","s","e","r">>,
    <<"A"," ","f","r","a","c"," ","p","a","r","s","e","r">>,
    <<"A"," ","l","e","f","t","/","r","i","g","h","t"," ","p","a","r","s","e","r">>,
    <<"A"," ","m","a","t","r","i","x"," ","p","a","r","s","e","r">>,
    <<"A"," ","p","h","a","n","t","o","m"," ","s","i","z","i","n","g"," ","p","a","r","s","e","r">>,
    <<"A"," ","r","u","l","e"," ","c","o","l","o","r"," ","p","a","r","s","e","r">>,
    <<"A","n"," ","a","c","c","e","n","t"," ","p","a","r","s","e","r">>,
    <<"A"," ","s","i","z","i","n","g"," ","p","a","r","s","e","r">>,
    <<"A","n"," ","a","r","r","o","w"," ","p","a","r","s","e","r">>,
    <<"A"," ","h","r","e","f"," ","p","a","r","s","e","r">>
}

\* mutant of IsPorted: membership up to letter case
IsPortedAnyCase(title) == \E p \in PORTED : Lower(p) = Lower(title)

\* title in PORTED
IsPorted(title) == title \in PORTED

-----------------------------------------------------------------------------
(* The identifier of one stub *)

\* Counter()
EmptyCounter == [k \in {} |-> 0]

\* mutant of NewCounter: the counter of the previous run is kept
StaleCounter == seen

\* seen = Counter()
NewCounter == EmptyCounter

\* seen[fn], 0 for a missing key
Count(c, fn) == IF fn \in DOMAIN c THEN c[fn] ELSE 0

\* seen[fn] += 1
Incr(c, fn) == [k \in DOMAIN c \cup {fn} |-> IF k = fn THEN Count(c, fn) + 1 ELSE c[k]]

\* mutant of Suffixed: the count is appended from the first occurrence on
SuffixedAlways(fn, n) == fn \o <<"_">> \o Str(n)

\* if seen[fn] > 1: fn = f"{fn}_{seen[fn]}"
Suffixed(fn, n) == IF n > 1 THEN fn \o <<"_">> \o Str(n) ELSE fn

-----------------------------------------------------------------------------
(* The document *)

\* stands for the grave accent character, which a string cannot hold here
BACKTICK == "GRAVE ACCENT"

Header == <<
    <<"//! Auto-generated placeholders for unported katex-spec.js suites.">>,
    <<"//! Regenerate via ", BACKTICK,
      "python aliter/scripts/generate_katex_spec_todos.py", BACKTICK, ".">>,
    <<>>,
    <<"#![allow(clippy::needless_doctest_main)]">>,
    <<>>,
    <<"use aliter::*;">>,
    <<>> >>

TODO_PORT == "    // TODO: port \""
FROM_SPEC == "\" from katex-spec.js:"

\* mutant of TodoLine: the 0-based index of the line
TodoLineZeroBased(title, n) == <<TODO_PORT>> \o title \o <<FROM_SPEC>> \o Str(n - 1)

\* f"    // TODO: port \"{title}\" from katex-spec.js:{lineno}"
TodoLine(title, n) == <<TODO_PORT>> \o title \o <<FROM_SPEC>> \o Str(n)

\* the seven lines appended for one stub
Block(stub) == <<
    <<"#[test]">>,
    <<"#[ignore]">>,
    <<"fn ">> \o stub.fn \o <<"() {">>,
    TodoLine(stub.title, stub.lineno),
    <<"    todo!(\"unported katex-spec.js suite\");">>,
    <<"}">>,
    <<>> >>

RECURSIVE Blocks(_)
Blocks(ss) == IF ss = <<>> THEN <<>> ELSE Block(Head(ss)) \o Blocks(Tail(ss))

\* "\n".join(lines)
RECURSIVE Join(_)
Join(lines) ==
    IF lines = <<>> THEN <<>>
    ELSE IF Len(lines) = 1 THEN Head(lines)
    ELSE Head(lines) \o <<"\n">> \o Join(Tail(lines))

-----------------------------------------------------------------------------
(* Inputs *)

TAIL == <<"\"", ",", " ", "f", ")">>

Decl(title) == DESCRIBE \o title \o TAIL

\* the lines the input file is made of
Lines == {
    Decl(<<"a">>),                                      \* base identifier a
    Decl(<<"a", " ", "2">>),                            \* base identifier a_2
    Decl(<<"A", " ", "p", "a", "r", "s", "e", "r">>),   \* a member of PORTED
    Decl(<<"a", " ", "p", "a", "r", "s", "e", "r">>),   \* not a member: the case differs
    Decl(<<"\\", "\"", "b">>),                          \* the title starts with an escaped quote
    DESCRIBE \o <<"3", "D">>,                           \* no closing quote, a leading digit
    <<" ">> \o Decl(<<"a">>),                           \* an indented declaration
    Decl(<<>>),                                         \* an empty title
    <<>>                                                \* an empty line
}

SeqsUpTo(S, n) == UNION {[1..k -> S] : k \in 0..n}

Alphabet == {"a", "B", "3", " ", "_", "\\", "'", "!"}

\* the arguments snakeify is called with
Names == SeqsUpTo(Alphabet, MaxNameLen) \cup {
    <<"A"," ","w","e","i","r","d",","," ","T","i","t","l","e","!">>,
    <<"3","D"," ","p","a","r","s","e","r">> }

-----------------------------------------------------------------------------
(* main *)

Init ==
    /\ contents \in SeqsUpTo(Lines, MaxLines)
    /\ pc = "start"
    /\ run = 1
    /\ lineno = 1
    /\ describes = <<>>
    /\ seen = EmptyCounter
    /\ stubs = <<>>
    /\ out = <<>>
    /\ stdout = <<>>
    /\ name = <<>>
    /\ clean = <<>>

\* mutant of ReadSpec: each part of the document is printed as soon as it is known
ReadSpecStreaming ==
    /\ pc = "start"
    /\ stdout' = Append(stdout, Join(Header) \o <<"\n">>)
    /\ \E readable \in BOOLEAN :
          IF readable
          THEN /\ pc' = "scan"
               /\ lineno' = 1
               /\ describes' = <<>>
          ELSE /\ pc' = "failed"
               /\ UNCHANGED <<lineno, describes>>
    /\ UNCHANGED <<contents, run, seen, stubs, out, name, clean>>

\* contents = SPEC.read_text(encoding="utf-8").splitlines(); describes = []
\* read_text raises when the file cannot be opened or read
ReadSpec ==
    /\ pc = "start"
    /\ \E readable \in BOOLEAN :
          IF readable
          THEN /\ pc' = "scan"
               /\ lineno' = 1
               /\ describes' = <<>>
          ELSE /\ pc' = "failed"
               /\ UNCHANGED <<lineno, describes>>
    /\ UNCHANGED <<contents, run, seen, stubs, out, stdout, name, clean>>

\* one iteration of: for lineno, line in enumerate(contents, 1)
ScanLine ==
    /\ pc = "scan"
    /\ lineno <= Len(contents)
    /\ LET m == DescribeMatch(contents[lineno])
       IN  describes' =
              IF m # <<>> /\ ~IsPorted(m[1])
              THEN Append(describes, [title |-> m[1], lineno |-> lineno])
              ELSE describes
    /\ lineno' = lineno + 1
    /\ UNCHANGED <<contents, pc, run, seen, stubs, out, stdout, name, clean>>

\* the scan loop ends: seen = Counter(); stubs = []
ScanDone ==
    /\ pc = "scan"
    /\ lineno > Len(contents)
    /\ seen' = NewCounter
    /\ stubs' = <<>>
    /\ pc' = "synth"
    /\ UNCHANGED <<contents, run, lineno, describes, out, stdout, name, clean>>

\* one iteration of: for title, lineno in describes
SynthOne ==
    /\ pc = "synth"
    /\ Len(stubs) < Len(describes)
    /\ LET d  == describes[Len(stubs) + 1]
           fn == snakeify(d.title)
           s2 == Incr(seen, fn)
       IN  /\ seen' = s2
           /\ stubs' = Append(stubs, [title |-> d.title, lineno |-> d.lineno,
                                      fn |-> Suffixed(fn, s2[fn])])
    /\ UNCHANGED <<contents, pc, run, lineno, describes, out, stdout, name, clean>>

\* the stub loop ends: out = [] and every out.append
Assemble ==
    /\ pc = "synth"
    /\ Len(stubs) = Len(describes)
    /\ out' = Header \o Blocks(stubs)
    /\ pc' = "print"
    /\ UNCHANGED <<contents, run, lineno, describes, seen, stubs, stdout, name, clean>>

\* print("\n".join(out))
Emit ==
    /\ pc = "print"
    /\ stdout' = Append(stdout, Join(out) \o <<"\n">>)
    /\ pc' = "done"
    /\ UNCHANGED <<contents, run, lineno, describes, seen, stubs, out, name, clean>>

\* main() is called again in the same process (a test calling it twice)
Rerun ==
    /\ pc = "done"
    /\ run < MaxRuns
    /\ run' = run + 1
    /\ pc' = "start"
    /\ UNCHANGED <<contents, lineno, describes, seen, stubs, out, stdout, name, clean>>

Next == ReadSpec \/ ScanLine \/ ScanDone \/ SynthOne \/ Assemble \/ Emit \/ Rerun

Spec == Init /\ [][Next]_vars

-----------------------------------------------------------------------------
(* snakeify called on its own *)

SnakeInit ==
    /\ name \in Names
    /\ clean = <<>>
    /\ pc = "snakeify"
    /\ contents = <<>>
    /\ run = 1
    /\ lineno = 1
    /\ describes = <<>>
    /\ seen = EmptyCounter
    /\ stubs = <<>>
    /\ out = <<>>
    /\ stdout = <<>>

SnakeifyCall ==
    /\ pc = "snakeify"
    /\ clean' = snakeify(name)
    /\ pc' = "returned"
    /\ UNCHANGED <<contents, run, lineno, describes, seen, stubs, out, stdout, name>>

SnakeNext == SnakeifyCall

SnakeSpec == SnakeInit /\ [][SnakeNext]_vars

-----------------------------------------------------------------------------
(* What the input file declares, read off the lines themselves *)

StartsWithDescribe(line) ==
    /\ Len(line) >= Len(DESCRIBE)
    /\ \A k \in 1..Len(DESCRIBE) : line[k] = DESCRIBE[k]

\* the positions of the double quotes after describe("
QuotePos(line) == {k \in (Len(DESCRIBE) + 1)..Len(line) : line[k] = "\""}

\* the last position of the text between describe(" and the next double
\* quote, or the end of the line when there is none
TitleEnd(line) ==
    LET qs == QuotePos(line)
    IN  IF qs = {} THEN Len(line) ELSE (CHOOSE k \in qs : \A j \in qs : k <= j) - 1

Declares(line) == StartsWithDescribe(line) /\ TitleEnd(line) > Len(DESCRIBE)

DeclaredTitle(line) == SubSeq(line, Len(DESCRIBE) + 1, TitleEnd(line))

Unported(line) == Declares(line) /\ DeclaredTitle(line) \notin PORTED

\* the unported declarations of the first n lines, in file order
RECURSIVE UnportedEntries(_)
UnportedEntries(n) ==
    IF n = 0 THEN <<>>
    ELSE UnportedEntries(n - 1) \o
         (IF Unported(contents[n])
          THEN <<[title |-> DeclaredTitle(contents[n]), lineno |-> n]>>
          ELSE <<>>)

Built == pc \in {"print", "done"}

IdentChars == LowerCase \cup Digits \cup {"_"}

ValidIdent(f) ==
    /\ f # <<>>
    /\ f[1] \in LowerCase
    /\ \A k \in DOMAIN f : f[k] \in IdentChars

\* the identifier written in a line "fn <identifier>() {" of the document
FnName(l) == SubSeq(l, 2, Len(l) - 1)

\* the lines of the block of stub i in the document
FnLineOf(i) == Len(Header) + 7 * (i - 1) + 3
TodoLineOf(i) == Len(Header) + 7 * (i - 1) + 4

\* the number a sequence of decimal digits denotes
RECURSIVE ParseNat(_)
ParseNat(ds) ==
    IF ds = <<>> THEN 0
    ELSE 10 * ParseNat(SubSeq(ds, 1, Len(ds) - 1))
         + ((CHOOSE d \in DOMAIN DIGITS : DIGITS[d] = ds[Len(ds)]) - 1)

-----------------------------------------------------------------------------
(* C1 *)

\* C1: within one run the identifiers of the stubs are pairwise distinct, also
\* when the base identifier of a later title equals an earlier suffixed
\* identifier (titles normalising to foo, foo, foo_2).
C1_IdentifiersDistinct ==
    \A i, j \in DOMAIN stubs : i # j => stubs[i].fn # stubs[j].fn

-----------------------------------------------------------------------------
(* C2 *)

\* C2: every identifier emitted as a function name, suffixed or not, is
\* non-empty, begins with a lowercase ASCII letter and holds only lowercase
\* ASCII letters, digits and underscores.
C2_IdentifierValid ==
    /\ \A i \in DOMAIN stubs : ValidIdent(stubs[i].fn)
    /\ \A k \in DOMAIN out :
          (out[k] # <<>> /\ out[k][1] = "fn ") => ValidIdent(FnName(out[k]))

C2_Witness ==
    /\ pc = "done"
    /\ Len(stubs) = 3
    /\ stubs[2].fn = KATEX_ \o <<"3", "d", "_", "2">>
    /\ stubs[3].fn = UNKNOWN
    /\ FnName(out[FnLineOf(2)]) = stubs[2].fn

-----------------------------------------------------------------------------
(* C3 *)

\* C3: the (title, line number) pairs of the stubs are exactly the extracted
\* entries whose title is not a member of PORTED, one stub each, in file
\* order with strictly increasing line numbers.
C3_StubsAreUnportedEntries ==
    Built =>
        /\ [i \in DOMAIN stubs |-> [title |-> stubs[i].title, lineno |-> stubs[i].lineno]]
              = UnportedEntries(Len(contents))
        /\ \A i \in DOMAIN stubs : stubs[i].title \notin PORTED
        /\ \A i, j \in DOMAIN stubs : i < j => stubs[i].lineno < stubs[j].lineno

C3_Witness ==
    /\ pc = "done"
    /\ Len(contents) = 3
    /\ contents[1] = Decl(<<"a", " ", "p", "a", "r", "s", "e", "r">>)
    /\ contents[2] = Decl(<<"A", " ", "p", "a", "r", "s", "e", "r">>)
    /\ Len(stubs) = 2
    /\ stubs[2].lineno = 3

-----------------------------------------------------------------------------
(* C4 *)

\* the base identifier of every line that is an unported declaration
UnportedBases ==
    [j \in DOMAIN contents |->
        IF Unported(contents[j]) THEN snakeify(DeclaredTitle(contents[j])) ELSE <<>>]

\* C4: the first surviving entry with a base identifier keeps it unsuffixed,
\* the k-th one (k >= 2) gets the base identifier followed by _k; entries
\* filtered out as ported do not advance the count.
C4_OccurrenceSuffix ==
    LET bases == UnportedBases
    IN  \A i \in DOMAIN stubs :
            LET base == bases[stubs[i].lineno]
                k    == Cardinality({j \in 1..stubs[i].lineno : bases[j] = base})
            IN  /\ base # <<>>
                /\ k = 1 => stubs[i].fn = base
                /\ k >= 2 => stubs[i].fn = base \o <<"_">> \o Str(k)

C4_Witness ==
    /\ pc = "done"
    /\ Len(contents) = 3
    /\ contents[1] = Decl(<<"A", " ", "p", "a", "r", "s", "e", "r">>)
    /\ Len(stubs) = 2
    /\ stubs[1].fn = <<"a", "_", "p", "a", "r", "s", "e", "r">>
    /\ stubs[2].fn = <<"a", "_", "p", "a", "r", "s", "e", "r", "_", "2">>

-----------------------------------------------------------------------------
(* C5 *)

\* C5: the traceability comment of stub i carries the title as captured from
\* its declaration line and the 1-based index of that line in the input, and
\* never the title or the line number of another entry.
C5_TraceabilityComment ==
    Built =>
        LET es == UnportedEntries(Len(contents))
        IN  /\ Len(out) = Len(Header) + 7 * Len(es)
            /\ \A i \in DOMAIN es :
                  LET l == out[TodoLineOf(i)]
                      t == es[i].title
                  IN  /\ Len(l) >= Len(t) + 3
                      /\ l[1] = TODO_PORT
                      /\ SubSeq(l, 2, Len(t) + 1) = t
                      /\ l[Len(t) + 2] = FROM_SPEC
                      /\ ParseNat(SubSeq(l, Len(t) + 3, Len(l))) = es[i].lineno

C5_Witness ==
    /\ pc = "done"
    /\ Len(contents) = 3
    /\ contents[1] = <<>>
    /\ contents[2] = DESCRIBE \o <<"3", "D">>
    /\ contents[3] = Decl(<<"a">>)
    /\ out[TodoLineOf(1)] = <<TODO_PORT, "3", "D", FROM_SPEC, "2">>
    /\ out[TodoLineOf(2)] = <<TODO_PORT, "a", FROM_SPEC, "3">>

-----------------------------------------------------------------------------
(* C6 *)

\* the number of backslashes that end at position k of the line
RECURSIVE BackslashesBefore(_, _)
BackslashesBefore(line, k) ==
    IF k >= 1 /\ line[k] = "\\" THEN 1 + BackslashesBefore(line, k - 1) ELSE 0

\* the positions of the double quotes after describe(" that are not escaped
ClosingQuotes(line) ==
    {k \in (Len(DESCRIBE) + 1)..Len(line) :
        line[k] = "\"" /\ BackslashesBefore(line, k - 1) % 2 = 0}

\* C6: for a line describe("T", ...) the captured title is the whole quoted
\* span T up to the double quote that closes it, escaped characters (an
\* escaped double quote included) kept as written and never truncated.
C6_TitleIsQuotedSpan ==
    \A i \in DOMAIN describes :
        LET line == contents[describes[i].lineno]
            qs   == ClosingQuotes(line)
        IN  (StartsWithDescribe(line) /\ qs # {}) =>
                describes[i].title =
                    SubSeq(line, Len(DESCRIBE) + 1, (CHOOSE k \in qs : \A j \in qs : k <= j) - 1)

-----------------------------------------------------------------------------
(* C7 *)

\* the line numbers the scan loop has gone through
Scanned == 1..(lineno - 1)

EntriesOf(j) == {i \in DOMAIN describes : describes[i].lineno = j}

\* C7 as stated: a line produces an entry only if it starts with describe("
\* followed by a non-empty title and a closing double quote.
C7_EntryOnlyWithClosedTitle ==
    \A i \in DOMAIN describes :
        LET line == contents[describes[i].lineno]
        IN  /\ StartsWithDescribe(line)
            /\ Len(line) > Len(DESCRIBE) /\ line[Len(DESCRIBE) + 1] # "\""
            /\ \E k \in (Len(DESCRIBE) + 2)..Len(line) : line[k] = "\""

\* C7 amended: a line produces an entry only if it starts, at its very first
\* character, with describe(" followed by at least one character other than
\* a double quote (a closing double quote is not needed); such a line whose
\* title is not ported produces exactly one entry, whatever the other lines
\* are; every other line produces no entry and no error.
C7_EntryOnlyWhenPatternMatches ==
    /\ \A j \in Scanned :
          LET line == contents[j]
              es   == EntriesOf(j)
          IN  /\ es # {} =>
                    /\ StartsWithDescribe(line)
                    /\ Len(line) > Len(DESCRIBE)
                    /\ line[Len(DESCRIBE) + 1] # "\""
              /\ IF Unported(line)
                 THEN /\ Cardinality(es) = 1
                      /\ \A i \in es : describes[i].title = DeclaredTitle(line)
                 ELSE es = {}
    /\ \A i \in DOMAIN describes : describes[i].lineno \in Scanned
    /\ (pc = "scan" /\ lineno <= Len(contents)) => ENABLED ScanLine

C7_Witness ==
    /\ pc = "synth"
    /\ Len(contents) = 3
    /\ contents[1] = <<" ">> \o Decl(<<"a">>)
    /\ contents[2] = DESCRIBE \o <<"3", "D">>
    /\ contents[3] = Decl(<<>>)
    /\ describes = <<[title |-> <<"3", "D">>, lineno |-> 2]>>

-----------------------------------------------------------------------------
(* C8 *)

\* C8: two runs of main on the same input and the same PORTED, also two
\* consecutive runs in one process, print identical documents; the
\* occurrence counter is empty when a run starts counting.
C8_RunsIdentical ==
    /\ \A r1, r2 \in DOMAIN stdout : stdout[r1] = stdout[r2]
    /\ (pc = "synth" /\ stubs = <<>>) => seen = EmptyCounter

C8_Witness ==
    /\ pc = "done"
    /\ run = 2
    /\ Len(stdout) = 2
    /\ \E i \in DOMAIN stubs : Count(seen, snakeify(stubs[i].title)) = 2

-----------------------------------------------------------------------------
(* C9 *)

\* C9: a run whose input cannot be read fails without having printed
\* anything, and output is printed in one step, after every stub and every
\* line of the document has been built.
C9_OutputOnlyAtEnd ==
    [][ /\ pc' = "failed" => (stdout' = stdout /\ Len(stdout) = run - 1)
        /\ stdout' # stdout =>
              /\ pc = "print" /\ pc' = "done"
              /\ lineno = Len(contents) + 1
              /\ Len(stubs) = Len(describes)
              /\ out = Header \o Blocks(stubs)
              /\ stdout' = Append(stdout, Join(out) \o <<"\n">>) ]_vars

C9_Witness ==
    /\ pc = "failed"
    /\ run = 2
    /\ Len(stdout) = 1

-----------------------------------------------------------------------------
(* C10 *)

\* every letter or digit of the title from position i on, lowercased, with
\* one underscore before each word that is not the first word of the title
RECURSIVE WordsFrom(_, _)
WordsFrom(s, i) ==
    IF i > Len(s) THEN <<>>
    ELSE IF ~IsAlnum(s[i]) THEN WordsFrom(s, i + 1)
    ELSE (IF i > 1 /\ ~IsAlnum(s[i - 1]) /\ (\E k \in 1..(i - 1) : IsAlnum(s[k]))
          THEN <<"_">> ELSE <<>>)
         \o <<LowerChar(s[i])>> \o WordsFrom(s, i + 1)

Steps1to4(s) ==
    LET w == WordsFrom(s, 1)
    IN  IF w = <<>> THEN UNKNOWN
        ELSE IF w[1] \in Digits THEN KATEX_ \o w
        ELSE w

\* C10: snakeify returns steps 1-4 applied in order: runs of characters
\* other than letters and digits (backslashes and quotes among them) become
\* one underscore, the edges are trimmed, the result is lowercased, an empty
\* result becomes unknown and a result not starting with a letter is
\* prefixed with katex_.
C10_SnakeifySteps ==
    pc = "returned" =>
        /\ clean = Steps1to4(name)
        /\ name = <<"A"," ","w","e","i","r","d",","," ","T","i","t","l","e","!">>
              => clean = <<"a","_","w","e","i","r","d","_","t","i","t","l","e">>
        /\ name = <<"3","D"," ","p","a","r","s","e","r">>
              => clean = <<"k","a","t","e","x","_","3","d","_","p","a","r","s","e","r">>
        /\ (\A k \in DOMAIN name : ~IsAlnum(name[k])) => clean = UNKNOWN

C10_Witness ==
    /\ pc = "returned"
    /\ name = <<"3","D"," ","p","a","r","s","e","r">>
    /\ clean = <<"k","a","t","e","x","_","3","d","_","p","a","r","s","e","r">>

=============================================================================
